---- MODULE Spec2Model ----
(***************************************************************************)
(* preview-pkg: the package store served by the worker (app.ts) and the    *)
(* publish pipeline of the command line client (cli.ts).                   *)
(*                                                                         *)
(* Strings are sequences of one-character strings, so that concatenation,  *)
(* prefixes and separators are what they are in the program.  An optional  *)
(* value is a sequence of at most one element: <<>> is undefined, <<v>> is *)
(* the value v.                                                            *)
(***************************************************************************)
EXTENDS Integers, Sequences, FiniteSets, TLC

(***************************************************************************)
(* Bounds of the model.                                                    *)
(***************************************************************************)
\* POST requests the worker receives in one behaviour.
MaxPosts == 2
\* Longest owner and package name storageKey is applied to.
MaxLen == 2
\* Most directories the path patterns of one publish run expand to.
MaxPaths == 2

\* Runs of the publish command on one directory.
MaxRuns == 2

\* Tarball contents a request may carry.
Blobs == { "x", "y" }

\* Some other content than the given one.
OtherBlob(bytes) == IF bytes = "x" THEN "y" ELSE "x"

\* In-flight request slots of the worker (the requests it may interleave).
Slots == { 1, 2 }

\* GitHub logins: path segment :username and the login behind a credential.
Usernames == { <<"u">>, <<"v">> }

None == << >>
Some(v) == << v >>

\* Validated package coordinates a request path may name.
Orgs == { None, Some(<<"a">>) }
PackageNames == { <<"b">> }
Versions == { <<"1">> }

(***************************************************************************)
(* Checksum engine.  createHash("sha256").update(file).digest("hex") on    *)
(* the client, the checksum R2 computes over the received bytes on the     *)
(* server.  A digest is modelled collision free; the hex text of a digest  *)
(* and the raw digest R2 records are different values.                     *)
(***************************************************************************)
Sha256Raw(bytes) == << "sha256", bytes >>

ToHex(raw) == << "hex", raw >>

FromHex(hex) == hex[2]

Sha256Hex(bytes) == ToHex(Sha256Raw(bytes))

\* The sha256 form field of a request: the digest of its tarball, or the digest
\* of other bytes.
SuppliedDigests(tarball) ==
    { Sha256Hex(tarball), Sha256Hex(OtherBlob(tarball)) }

(***************************************************************************)
(* storageKey (app.ts)                                                     *)
(***************************************************************************)
StorageKeyDashSeparator(username, org, packageName, version) ==
    <<"preview-pkg/">> \o username \o <<"/">>
        \o (IF org # None /\ org[1] # << >>
               THEN <<"@">> \o org[1] \o <<"-">> \o packageName
               ELSE packageName)
        \o <<"@">> \o version

storageKey(username, org, packageName, version) ==
    <<"preview-pkg/">> \o username \o <<"/">>
        \o (IF org # None /\ org[1] # << >>
               THEN <<"@">> \o org[1] \o <<"_", "_">> \o packageName
               ELSE packageName)
        \o <<"@">> \o version

(***************************************************************************)
(* State.                                                                  *)
(***************************************************************************)
VARIABLES
    \* the worker and its R2 bucket
    store,       \* the R2 bucket: key -> object, defined on the keys that hold one
    reqs,        \* slot -> the request the worker is handling in it
    nreq,        \* POST requests received so far
    concurrent,  \* whether the worker may handle two requests at once
    firstBody,   \* history: key -> the body of the first POST answered 201
    \* storageKey applied to two coordinates
    keyArgs,     \* the two coordinates
    keyOut,      \* their storage keys, once computed
    \* one run of the publish command
    pc,                 \* where the command is
    i,                  \* index of the running loop
    disk,               \* directory -> text of its package.json
    disk0,              \* history: disk when the command started
    paths,              \* the directories the patterns expanded to, in order
    versionArg,         \* the --version option
    publishingVersion,
    deps,               \* Map: package name -> package URL
    packageInfos,       \* Array of { path, pJson }
    restoreMap,         \* Map: path -> the text its restore function writes
    packedPackages,     \* Array of { path, pJson, packResult }
    uploadResults,      \* Array of { name, packageUrl, status, errorMessage }
    outro,              \* the closing message
    written,            \* history: directories whose package.json PASS 2 wrote
    packLog,            \* history: how each pack invocation ended
    netLog,             \* history: network calls, and whether a manifest was mutated
    uploadRes,          \* the answer an upload task classifies, if fetch gave one
    runLog,             \* history: what the earlier runs of the command reported
    uncaught,           \* the message of the error that ended the command
    archives,           \* the archive files that exist on disk
    \* GithubCredentialsManager and its file
    credFile,    \* what github-credentials.json holds
    credOut      \* what getCredentials returned, once called

storeVars == << store, reqs, nreq, concurrent, firstBody >>

keyVars == << keyArgs, keyOut >>

pubVars ==
    << pc, i, disk, disk0, paths, versionArg, publishingVersion, deps,
       packageInfos, restoreMap, packedPackages, uploadResults, outro,
       written, packLog, netLog, uploadRes, runLog, uncaught, archives >>

credVars == << credFile, credOut >>

vars == << storeVars, keyVars, pubVars, credVars >>

Idle == [ kind |-> "idle", pc |-> "idle" ]

KeyOf(r) == storageKey(r.username, r.org, r.packageName, r.version)

InFlight == { s \in Slots : reqs[s].kind # "idle" /\ reqs[s].pc # "done" }

\* A slot is free when it holds no request or one that has been answered; the
\* lowest free slot takes the next request.
Free(s) == reqs[s].kind = "idle" \/ reqs[s].pc = "done"

CanStart(s) ==
    /\ Free(s)
    /\ \A x \in Slots : x < s => ~Free(x)
    /\ (concurrent \/ InFlight = {})

StoreInit ==
    /\ store = << >>
    /\ reqs = [ s \in Slots |-> Idle ]
    /\ nreq = 0
    /\ firstBody = << >>

\* app.post: the validators have accepted the path, the form and the header.
StartPost(s) ==
    /\ CanStart(s)
    /\ nreq < MaxPosts
    /\ \E username \in Usernames, login \in Usernames, org \in Orgs,
          packageName \in PackageNames, version \in Versions,
          tarball \in Blobs :
       \E sha256 \in SuppliedDigests(tarball) :
          LET k == storageKey(username, org, packageName, version) IN
          reqs' = [ reqs EXCEPT ![s] =
                      [ kind |-> "POST", pc |-> "auth",
                        username |-> username, org |-> org,
                        packageName |-> packageName, version |-> version,
                        login |-> login, tarball |-> tarball, sha256 |-> sha256,
                        status |-> 0, sha |-> None, body |-> None,
                        seen |-> IF k \in DOMAIN store
                                    THEN Some(store[k].body) ELSE None ] ]
    /\ nreq' = nreq + 1
    /\ UNCHANGED << store, concurrent, firstBody, keyVars, pubVars, credVars >>

\* app.post: octokit.rest.users.getAuthenticated() and the login comparison.
AuthLoginIgnored(s) ==
    /\ reqs[s].kind = "POST" /\ reqs[s].pc = "auth"
    /\ reqs' = [ reqs EXCEPT ![s].pc = "head" ]
    /\ UNCHANGED << store, nreq, concurrent, firstBody, keyVars, pubVars, credVars >>

AuthPost(s) ==
    /\ reqs[s].kind = "POST" /\ reqs[s].pc = "auth"
    /\ IF reqs[s].login # reqs[s].username
          THEN reqs' = [ reqs EXCEPT ![s].pc = "done", ![s].status = 401 ]
          ELSE reqs' = [ reqs EXCEPT ![s].pc = "head" ]
    /\ UNCHANGED << store, nreq, concurrent, firstBody, keyVars, pubVars, credVars >>

\* app.post: STORAGE.head(packageKey) and the 409 answer.
HeadPostNoCheck(s) ==
    /\ reqs[s].kind = "POST" /\ reqs[s].pc = "head"
    /\ reqs' = [ reqs EXCEPT ![s].pc = "put" ]
    /\ UNCHANGED << store, nreq, concurrent, firstBody, keyVars, pubVars, credVars >>

HeadPostOwnDigest(s) ==
    /\ reqs[s].kind = "POST" /\ reqs[s].pc = "head"
    /\ LET k == KeyOf(reqs[s]) IN
       IF k \in DOMAIN store /\ store[k].sha256 # None
          THEN reqs' = [ reqs EXCEPT ![s].pc = "done", ![s].status = 409,
                                     ![s].sha = Some(reqs[s].sha256) ]
          ELSE reqs' = [ reqs EXCEPT ![s].pc = "put" ]
    /\ UNCHANGED << store, nreq, concurrent, firstBody, keyVars, pubVars, credVars >>

HeadPost(s) ==
    /\ reqs[s].kind = "POST" /\ reqs[s].pc = "head"
    /\ LET k == KeyOf(reqs[s]) IN
       IF k \in DOMAIN store /\ store[k].sha256 # None
          THEN reqs' = [ reqs EXCEPT ![s].pc = "done", ![s].status = 409,
                                     ![s].sha = Some(ToHex(store[k].sha256[1])) ]
          ELSE reqs' = [ reqs EXCEPT ![s].pc = "put" ]
    /\ UNCHANGED << store, nreq, concurrent, firstBody, keyVars, pubVars, credVars >>

\* STORAGE.put with the sha256 option: R2 computes the SHA-256 of the bytes it
\* received and refuses the write ("SHA-256" in the error message) when it is
\* not the digest supplied.  Without the option nothing is refused.
R2AcceptsAnyChecksum(bytes, sha256) == FALSE

R2RejectsChecksum(bytes, sha256) == FromHex(sha256) # Sha256Raw(bytes)

\* The object a successful put leaves at the key; R2 records the checksum.
R2ObjectNoChecksum(bytes, sha256, meta, login) ==
    [ body |-> bytes, sha256 |-> None,
      customMetadata |-> meta, uploader |-> login ]

R2Object(bytes, sha256, meta, login) ==
    [ body |-> bytes, sha256 |-> Some(FromHex(sha256)),
      customMetadata |-> meta, uploader |-> login ]

\* app.post: STORAGE.put(...) and the 400 / 500 / 201 answers.  The put is
\* unconditional: it replaces whatever the key holds at that moment.
PutPost(s) ==
    /\ reqs[s].kind = "POST" /\ reqs[s].pc = "put"
    /\ LET r == reqs[s]
           k == KeyOf(r)
           meta == [ org |-> IF r.org = None THEN << >> ELSE r.org[1],
                     packageName |-> r.packageName, version |-> r.version ]
       IN \E storageFails \in BOOLEAN :
            IF storageFails
               THEN /\ reqs' = [ reqs EXCEPT ![s].pc = "done", ![s].status = 500 ]
                    /\ UNCHANGED << store, firstBody >>
               ELSE IF R2RejectsChecksum(r.tarball, r.sha256)
               THEN /\ reqs' = [ reqs EXCEPT ![s].pc = "done", ![s].status = 400 ]
                    /\ UNCHANGED << store, firstBody >>
               ELSE /\ store' = [ x \in DOMAIN store \cup {k} |->
                                    IF x = k
                                       THEN R2Object(r.tarball, r.sha256, meta, r.login)
                                       ELSE store[x] ]
                    /\ reqs' = [ reqs EXCEPT ![s].pc = "done", ![s].status = 201 ]
                    /\ firstBody' = IF k \in DOMAIN firstBody
                                       THEN firstBody
                                       ELSE [ x \in DOMAIN firstBody \cup {k} |->
                                                IF x = k THEN r.tarball ELSE firstBody[x] ]
    /\ UNCHANGED << nreq, concurrent, keyVars, pubVars, credVars >>

\* app.get: the validator has accepted the path.
StartGet(s) ==
    /\ CanStart(s)
    /\ \E username \in Usernames, org \in Orgs,
          packageName \in PackageNames, version \in Versions :
          LET k == storageKey(username, org, packageName, version) IN
          reqs' = [ reqs EXCEPT ![s] =
                      [ kind |-> "GET", pc |-> "head",
                        username |-> username, org |-> org,
                        packageName |-> packageName, version |-> version,
                        login |-> None, tarball |-> "", sha256 |-> None,
                        status |-> 0, sha |-> None, body |-> None,
                        seen |-> IF k \in DOMAIN firstBody
                                    THEN Some(firstBody[k]) ELSE None ] ]
    /\ UNCHANGED << store, nreq, concurrent, firstBody, keyVars, pubVars, credVars >>

\* app.get: STORAGE.head(packageKey).
HeadGet(s) ==
    /\ reqs[s].kind = "GET" /\ reqs[s].pc = "head"
    /\ IF KeyOf(reqs[s]) \in DOMAIN store
          THEN reqs' = [ reqs EXCEPT ![s].pc = "get" ]
          ELSE reqs' = [ reqs EXCEPT ![s].pc = "done", ![s].status = 404 ]
    /\ UNCHANGED << store, nreq, concurrent, firstBody, keyVars, pubVars, credVars >>

\* app.get: STORAGE.get(packageKey) and the body of the answer.
BodyGet(s) ==
    /\ reqs[s].kind = "GET" /\ reqs[s].pc = "get"
    /\ LET k == KeyOf(reqs[s]) IN
       IF k \in DOMAIN store
          THEN reqs' = [ reqs EXCEPT ![s].pc = "done", ![s].status = 200,
                                     ![s].body = Some(store[k].body) ]
          ELSE reqs' = [ reqs EXCEPT ![s].pc = "done", ![s].status = 404 ]
    /\ UNCHANGED << store, nreq, concurrent, firstBody, keyVars, pubVars, credVars >>

StoreNext ==
    \E s \in Slots :
        \/ StartPost(s)
        \/ AuthPost(s)
        \/ HeadPost(s)
        \/ PutPost(s)
        \/ StartGet(s)
        \/ HeadGet(s)
        \/ BodyGet(s)

\* The bucket and the worker at rest, for the specifications of the other parts.
StoreIdle == StoreInit /\ concurrent = FALSE

(***************************************************************************)
(* storageKey as a function of validated coordinates.                      *)
(***************************************************************************)
\* Characters coordinates are drawn from: a lowercase letter and the dash.
KeyChars == { "a", "-" }

\* Representatives of the character classes of the two regular expressions.
LowercaseAlphaNumericWithDash ==
    { "a", "b", "c", "e", "f", "u", "v", "0", "1", "2", "7", "-" }

MixedCaseAlphaNumericWithDash == LowercaseAlphaNumericWithDash \cup { "U" }

Matches(str, charset) == Len(str) > 0 /\ \A n \in 1 .. Len(str) : str[n] \in charset

MaxUsernameLength == 39

MaxSegmentLength == 32

\* GithubUsername: nonEmpty, maxLength(39), /^[a-zA-Z0-9-]+$/
ValidUsername(str) ==
    /\ str # << >>
    /\ Len(str) <= MaxUsernameLength
    /\ Matches(str, MixedCaseAlphaNumericWithDash)

\* One field of PackageInfo: nonEmpty, maxLength(32), /^[a-z0-9-]+$/
ValidSegment(str) ==
    /\ str # << >>
    /\ Len(str) <= MaxSegmentLength
    /\ Matches(str, LowercaseAlphaNumericWithDash)

\* PackageInfo: org is optional, packageName and version are not.
ValidPackageInfo(org, packageName, version) ==
    /\ org # None => ValidSegment(org[1])
    /\ ValidSegment(packageName)
    /\ ValidSegment(version)

\* Strings of up to n characters, the empty string included.
StringsUpTo(n) == UNION { [ 1 .. m -> KeyChars ] : m \in 0 .. n }

KeyVersions == { <<"1">>, <<"2">> }

Coordinates ==
    [ username : Usernames,
      org : { None } \cup { Some(str) : str \in StringsUpTo(MaxLen) },
      packageName : StringsUpTo(MaxLen),
      version : KeyVersions ]

ValidCoordinate(c) ==
    ValidUsername(c.username) /\ ValidPackageInfo(c.org, c.packageName, c.version)

KeyInit ==
    /\ keyArgs \in Coordinates \X Coordinates
    /\ keyOut = None

KeyIdle ==
    /\ keyArgs = None
    /\ keyOut = None

\* Both handlers: storageKey({ username, org, packageName, version }).
ComputeKeys ==
    /\ keyOut = None
    /\ keyOut' = << KeyOf(keyArgs[1]), KeyOf(keyArgs[2]) >>
    /\ UNCHANGED << keyArgs, storeVars, pubVars, credVars >>

KeyNext == ComputeKeys

(***************************************************************************)
(* GithubCredentialsManager (credential-manager.ts): the credential file   *)
(* and what getCredentials makes of it.  A JSON value is its type and its  *)
(* text; a file is missing, empty, not JSON, or a JSON object with the     *)
(* members clientId, scopes, token and possibly one more.                  *)
(***************************************************************************)
AbsentMember == [ type |-> "absent", value |-> << >> ]

\* clientId and token as a file may hold them.
MemberValues ==
    { AbsentMember,
      [ type |-> "string", value |-> << "s1" >> ],
      [ type |-> "string", value |-> << "s2" >> ],
      [ type |-> "number", value |-> << "1" >> ] }

\* scopes as a file may hold it.
ScopeValues ==
    { AbsentMember,
      [ type |-> "strings", value |-> << >> ],
      [ type |-> "strings", value |-> << "read:user", "user:email" >> ],
      [ type |-> "mixed", value |-> << "read:user", "1" >> ],
      [ type |-> "string", value |-> << "read:user" >> ] }

NoFile ==
    [ kind |-> "missing", clientId |-> AbsentMember, scopes |-> AbsentMember,
      token |-> AbsentMember, extra |-> FALSE ]

EmptyFile == [ NoFile EXCEPT !.kind = "empty" ]

NotJsonFile == [ NoFile EXCEPT !.kind = "not-json" ]

JsonFiles ==
    [ kind : { "json" }, clientId : MemberValues, scopes : ScopeValues,
      token : MemberValues, extra : BOOLEAN ]

CredFiles == { NoFile, EmptyFile, NotJsonFile } \cup JsonFiles

\* v.object({ clientId: v.string(), scopes: v.array(v.string()), token: v.string() })
GithubOAuthAppAuthentication(file) ==
    /\ file.kind = "json"
    /\ file.clientId.type = "string"
    /\ file.scopes.type = "strings"
    /\ file.token.type = "string"

\* parsed.output: the three members, any other member dropped.
ParsedOutput(file) ==
    [ clientId |-> file.clientId.value, scopes |-> file.scopes.value,
      token |-> file.token.value ]

\* JSON.stringify(credentials, null, 2)
CredentialsText(credentials) ==
    [ kind |-> "json",
      clientId |-> [ type |-> "string", value |-> credentials.clientId ],
      scopes |-> [ type |-> "strings", value |-> credentials.scopes ],
      token |-> [ type |-> "string", value |-> credentials.token ],
      extra |-> FALSE ]

\* getCredentials on a file, with an unlink that works or fails.
getCredentials(file, unlinkOk) ==
    LET credentials == IF file.kind = "missing" THEN None ELSE Some(file)
    IN IF credentials = None \/ credentials[1].kind = "empty"
          THEN [ output |-> None, unlink |-> "not-called", threw |-> FALSE, file |-> file ]
       ELSE IF ~GithubOAuthAppAuthentication(credentials[1])
          THEN [ output |-> None,
                 unlink |-> IF unlinkOk THEN "done" ELSE "failed",
                 threw |-> FALSE,
                 file |-> IF unlinkOk THEN NoFile ELSE file ]
       ELSE [ output |-> Some(ParsedOutput(credentials[1])),
              unlink |-> "not-called", threw |-> FALSE, file |-> file ]

CredInit ==
    /\ credFile \in CredFiles
    /\ credOut = None

CredIdle ==
    /\ credFile = NoFile
    /\ credOut = None

\* A command starts and calls getCredentials.
ReadCredentials ==
    /\ credOut = None
    /\ \E unlinkOk \in BOOLEAN :
         LET r == getCredentials(credFile, unlinkOk)
         IN /\ credOut' = Some([ output |-> r.output, unlink |-> r.unlink,
                                 threw |-> r.threw ])
            /\ credFile' = r.file
    /\ UNCHANGED << storeVars, keyVars, pubVars >>

\* login: saveCredentials writes the tokens of the device flow, or warns.
SaveCredentials ==
    /\ credOut # None
    /\ \E token \in { << "s1" >>, << "s2" >> }, writeOk \in BOOLEAN :
         credFile' =
            IF writeOk
               THEN CredentialsText([ clientId |-> << "s1" >>,
                                      scopes |-> << "read:user", "user:email" >>,
                                      token |-> token ])
               ELSE credFile
    /\ credOut' = None
    /\ UNCHANGED << storeVars, keyVars, pubVars >>

CredNext == ReadCredentials \/ SaveCredentials

(***************************************************************************)
(* The publish command of the client (cli.ts).                             *)
(*                                                                         *)
(* A package.json file is its text: the parsed JSON value together with    *)
(* the layout of the text.  JSON.parse forgets the layout and              *)
(* JSON.stringify(value, null, 2) always produces the two-space layout     *)
(* without a final newline, here "indent2".                                *)
(***************************************************************************)
\* Directories the path patterns may expand to.
Dirs == { "d1", "d2" }

\* The login of the stored credential.
ClientLogin == <<"u">>

\* env.DEFAULT_API_URL
API_URL_BASE == <<"https://pkg.rx2.dev">>

\* A dependency range that names a local package of the workspace.
Workspace == <<"workspace:*">>

\* stdout of `git rev-parse HEAD`
GitHead == <<"c", "0", "f", "f", "e", "e", "1", "2", "3">>

GitShortLength == 7

NoJson ==
    [ name |-> None, version |-> None, private |-> FALSE,
      dependencies |-> None, devDependencies |-> None,
      optionalDependencies |-> None, peerDependencies |-> None ]

\* Package a: depends on b in every dependency class and on x, which is not
\* part of the workspace.
JsonA ==
    [ NoJson EXCEPT
        !.name = Some(<<"a">>), !.version = Some(<<"1">>),
        !.dependencies = Some([ n \in { <<"b">>, <<"x">> } |->
                                  IF n = <<"b">> THEN Workspace ELSE <<"^1">> ]),
        !.devDependencies = Some([ n \in { <<"b">> } |-> Workspace ]),
        !.optionalDependencies = Some([ n \in { <<"b">> } |-> Workspace ]),
        !.peerDependencies = Some([ n \in { <<"b">> } |-> Workspace ]) ]

\* Package b: no dependency field at all.
JsonB == [ NoJson EXCEPT !.name = Some(<<"b">>), !.version = Some(<<"2">>) ]

MissingFile == [ layout |-> "missing", json |-> NoJson ]

\* The package.json texts a directory may hold when the command starts.
ManifestTexts ==
    { [ layout |-> "pretty", json |-> JsonA ],
      [ layout |-> "pretty", json |-> JsonB ],
      [ layout |-> "indent2", json |-> JsonB ],
      [ layout |-> "pretty", json |-> [ JsonA EXCEPT !.private = TRUE ] ],
      [ layout |-> "pretty", json |-> [ JsonB EXCEPT !.name = None ] ],
      [ layout |-> "pretty", json |-> [ JsonB EXCEPT !.version = None ] ],
      [ layout |-> "garbage", json |-> NoJson ],
      MissingFile }

\* JSON.stringify(pJson, null, 2)
Stringify(pJson) == [ layout |-> "indent2", json |-> pJson ]

\* readPackageJson: null (None) when the file cannot be read or parsed.
readPackageJson(text) ==
    IF text.layout \in { "missing", "garbage" } THEN None ELSE Some(text.json)

\* Map.prototype.set on a map kept as a function.
MapSet(map, key, value) ==
    [ x \in DOMAIN map \cup { key } |-> IF x = key THEN value ELSE map[x] ]

\* Map.prototype.set on a map kept in insertion order: a key already present
\* keeps its place and gets the new value.
OrderedSet(map, key, value) ==
    IF \E n \in 1 .. Len(map) : map[n].key = key
       THEN [ n \in 1 .. Len(map) |->
                IF map[n].key = key THEN [ key |-> key, value |-> value ] ELSE map[n] ]
       ELSE Append(map, [ key |-> key, value |-> value ])

\* `${API_URL_BASE}/${username}/${pJson.name}@${publishingVersion}`
PackageUrlNoIdentity(login, name, version) ==
    API_URL_BASE \o <<"/">> \o name \o <<"@">> \o version

PackageUrl(login, name, version) ==
    API_URL_BASE \o <<"/">> \o login \o <<"/">> \o name \o <<"@">> \o version

\* A property name every object parsed from JSON inherits from
\* Object.prototype: `name in object` holds for it whatever the object holds.
ObjectPrototypeNames == { <<"constructor">> }

\* hijackDeps: every key of newDeps that is `in` oldDeps is assigned its
\* URL; the assignment creates the property when it was an inherited one.
hijackDeps(newDeps, oldDeps) ==
    IF oldDeps = None
       THEN None
       ELSE Some([ n \in DOMAIN oldDeps[1]
                          \cup (DOMAIN newDeps \cap ObjectPrototypeNames) |->
                     IF n \in DOMAIN newDeps THEN newDeps[n] ELSE oldDeps[1][n] ])

\* writeDeps, the object it leaves in pJson.
HijackedJson(pJson, newDeps) ==
    [ pJson EXCEPT
        !.dependencies = hijackDeps(newDeps, pJson.dependencies),
        !.devDependencies = hijackDeps(newDeps, pJson.devDependencies),
        !.optionalDependencies = hijackDeps(newDeps, pJson.optionalDependencies) ]

\* writeDeps, the text its restore function writes back.
RestoreReserialized(originalContents) ==
    IF readPackageJson(originalContents) = None
       THEN originalContents
       ELSE Stringify(readPackageJson(originalContents)[1])

RestoreContents(originalContents) == originalContents

\* String.prototype.replace with a string pattern: the first occurrence only.
ReplaceFirst(str, ch, by) ==
    IF \E n \in 1 .. Len(str) : str[n] = ch
       THEN LET at == CHOOSE n \in 1 .. Len(str) :
                        str[n] = ch /\ \A m \in 1 .. n - 1 : str[m] # ch
            IN SubSeq(str, 1, at - 1) \o by \o SubSeq(str, at + 1, Len(str))
       ELSE str

PackageIdentifier(pJson) ==
    ReplaceFirst(ReplaceFirst(pJson.name[1], "@", << >>), "/", <<"-">>)
        \o <<"-">> \o pJson.version[1]

\* The answers the upload request may get.
ResponseKinds ==
    { "created", "exists-same", "exists-other", "conflict-plain",
      "server-error", "unparseable", "network-error" }

Response(kind, localSha) ==
    CASE kind = "created" ->
           [ status |-> 201, parsed |-> "message", sha256 |-> None ]
      [] kind = "exists-same" ->
           [ status |-> 409, parsed |-> "error", sha256 |-> Some(localSha) ]
      [] kind = "exists-other" ->
           [ status |-> 409, parsed |-> "error",
             sha256 |-> Some(Sha256Hex(<<"other", localSha>>)) ]
      [] kind = "conflict-plain" ->
           [ status |-> 409, parsed |-> "error", sha256 |-> None ]
      [] kind = "server-error" ->
           [ status |-> 500, parsed |-> "error", sha256 |-> None ]
      [] OTHER ->
           [ status |-> 502, parsed |-> "unparseable", sha256 |-> None ]

NoMessage == [ kind |-> "none", expected |-> None, actual |-> None ]

\* The upload task: the entry it pushes to uploadResults for a response.
UploadOutcomeAnyDigestExists(res, localSha) ==
    IF res.parsed = "unparseable"
       THEN [ status |-> "error", errorMessage |-> [ NoMessage EXCEPT !.kind = "parse" ] ]
    ELSE IF res.status = 409 /\ res.sha256 # None
       THEN [ status |-> "exists", errorMessage |-> NoMessage ]
    ELSE IF ~(res.status >= 200 /\ res.status <= 299)
       THEN [ status |-> "error", errorMessage |-> [ NoMessage EXCEPT !.kind = "http" ] ]
    ELSE [ status |-> "success", errorMessage |-> NoMessage ]

UploadOutcome(res, localSha) ==
    IF res.parsed = "unparseable"
       THEN [ status |-> "error", errorMessage |-> [ NoMessage EXCEPT !.kind = "parse" ] ]
    ELSE IF res.status = 409 /\ res.sha256 # None /\ res.sha256[1] = localSha
       THEN [ status |-> "exists", errorMessage |-> NoMessage ]
    ELSE IF res.status = 409 /\ res.sha256 # None
       THEN [ status |-> "error",
              errorMessage |-> [ kind |-> "conflict", expected |-> res.sha256,
                                 actual |-> Some(localSha) ] ]
    ELSE IF ~(res.status >= 200 /\ res.status <= 299)
       THEN [ status |-> "error", errorMessage |-> [ NoMessage EXCEPT !.kind = "http" ] ]
    ELSE [ status |-> "success", errorMessage |-> NoMessage ]

IsMutated == \E d \in Dirs : disk[d] # disk0[d]

Terminated == pc \in { "done", "aborted" }

PubInit ==
    /\ pc = "credentials"
    /\ i = 1
    /\ disk \in [ Dirs -> ManifestTexts ]
    /\ disk0 = disk
    /\ paths \in UNION { [ 1 .. n -> Dirs ] : n \in 0 .. MaxPaths }
    /\ versionArg \in { None, Some(<<"7">>) }
    /\ publishingVersion = None
    /\ deps = << >>
    /\ packageInfos = << >>
    /\ restoreMap = << >>
    /\ packedPackages = << >>
    /\ uploadResults = << >>
    /\ outro = "none"
    /\ written = {}
    /\ packLog = << >>
    /\ netLog = << >>
    /\ uploadRes = None
    /\ runLog = << >>
    /\ uncaught = "none"
    /\ archives = {}

PubIdle ==
    /\ pc = "idle"
    /\ i = 1
    /\ disk = [ d \in Dirs |-> MissingFile ]
    /\ disk0 = disk
    /\ paths = << >>
    /\ versionArg = None
    /\ publishingVersion = None
    /\ deps = << >>
    /\ packageInfos = << >>
    /\ restoreMap = << >>
    /\ packedPackages = << >>
    /\ uploadResults = << >>
    /\ outro = "none"
    /\ written = {}
    /\ packLog = << >>
    /\ netLog = << >>
    /\ uploadRes = None
    /\ runLog = << >>
    /\ uncaught = "none"
    /\ archives = {}

\* GithubCredentialsManager.getCredentials() and the early return.
GetCredentials ==
    /\ pc = "credentials"
    /\ \E found \in BOOLEAN :
         IF found
            THEN pc' = "version" /\ outro' = outro
            ELSE pc' = "done" /\ outro' = "Authentication required"
    /\ UNCHANGED << i, disk, disk0, paths, versionArg, publishingVersion, deps,
                    packageInfos, restoreMap, packedPackages, uploadResults,
                    written, packLog, netLog, uploadRes, runLog, uncaught, archives,
                    storeVars, keyVars, credVars >>

\* publishingVersion: the --version option, or the short hash of HEAD.
ResolveVersionNoReturn ==
    /\ pc = "version"
    /\ IF versionArg # None /\ versionArg[1] # << >>
          THEN /\ publishingVersion' = versionArg
               /\ pc' = "username" /\ outro' = outro
          ELSE \E exitCode \in { 0, 128 } :
                 IF exitCode # 0
                    THEN /\ pc' = "username" /\ outro' = "Version detection failed"
                         /\ publishingVersion' = Some(<< >>)
                    ELSE /\ publishingVersion' = Some(SubSeq(GitHead, 1, GitShortLength))
                         /\ pc' = "username" /\ outro' = outro
    /\ UNCHANGED << i, disk, disk0, paths, versionArg, deps,
                    packageInfos, restoreMap, packedPackages, uploadResults,
                    written, packLog, netLog, uploadRes, runLog, uncaught, archives,
                    storeVars, keyVars, credVars >>

ResolveVersion ==
    /\ pc = "version"
    /\ IF versionArg # None /\ versionArg[1] # << >>
          THEN /\ publishingVersion' = versionArg
               /\ pc' = "username" /\ outro' = outro
          ELSE \E exitCode \in { 0, 128 } :
                 IF exitCode # 0
                    THEN /\ pc' = "done" /\ outro' = "Version detection failed"
                         /\ publishingVersion' = publishingVersion
                    ELSE /\ publishingVersion' = Some(SubSeq(GitHead, 1, GitShortLength))
                         /\ pc' = "username" /\ outro' = outro
    /\ UNCHANGED << i, disk, disk0, paths, versionArg, deps,
                    packageInfos, restoreMap, packedPackages, uploadResults,
                    written, packLog, netLog, uploadRes, runLog, uncaught, archives,
                    storeVars, keyVars, credVars >>

\* GithubCredentialsManager.getUsername(): a request to GitHub, which may fail.
GetUsername ==
    /\ pc = "username"
    /\ \E ok \in BOOLEAN :
         IF ok THEN pc' = "pass1" /\ uncaught' = uncaught
               ELSE pc' = "aborted" /\ uncaught' = "getUsername failed"
    /\ i' = 1
    /\ netLog' = Append(netLog, [ call |-> "getAuthenticated", mutated |-> IsMutated ])
    /\ UNCHANGED << disk, disk0, paths, versionArg, publishingVersion, deps,
                    packageInfos, restoreMap, packedPackages, uploadResults,
                    outro, written, packLog, uploadRes, runLog, archives,
                    storeVars, keyVars, credVars >>

\* PASS 1, one iteration: read a package.json and add it to the dependency map.
DiscoverPrivateToo ==
    /\ pc = "pass1" /\ i <= Len(paths)
    /\ LET p == paths[i]
           pJson == readPackageJson(disk[p])
       IN IF \/ pJson = None
             \/ pJson[1].name = None \/ pJson[1].name[1] = << >>
             \/ pJson[1].version = None \/ pJson[1].version[1] = << >>
             THEN UNCHANGED << packageInfos, deps >>
             ELSE /\ packageInfos' = Append(packageInfos, [ path |-> p, pJson |-> pJson[1] ])
                  /\ deps' = MapSet(deps, pJson[1].name[1],
                                    PackageUrl(ClientLogin, pJson[1].name[1],
                                               publishingVersion[1]))
    /\ i' = i + 1
    /\ UNCHANGED << pc, disk, disk0, paths, versionArg, publishingVersion,
                    restoreMap, packedPackages, uploadResults,
                    outro, written, packLog, netLog, uploadRes, runLog, uncaught, archives,
                    storeVars, keyVars, credVars >>

Discover ==
    /\ pc = "pass1" /\ i <= Len(paths)
    /\ LET p == paths[i]
           pJson == readPackageJson(disk[p])
       IN IF \/ pJson = None
             \/ pJson[1].name = None \/ pJson[1].name[1] = << >>
             \/ pJson[1].private
             \/ pJson[1].version = None \/ pJson[1].version[1] = << >>
             THEN UNCHANGED << packageInfos, deps >>
             ELSE /\ packageInfos' = Append(packageInfos, [ path |-> p, pJson |-> pJson[1] ])
                  /\ deps' = MapSet(deps, pJson[1].name[1],
                                    PackageUrl(ClientLogin, pJson[1].name[1],
                                               publishingVersion[1]))
    /\ i' = i + 1
    /\ UNCHANGED << pc, disk, disk0, paths, versionArg, publishingVersion,
                    restoreMap, packedPackages, uploadResults,
                    outro, written, packLog, netLog, uploadRes, runLog, uncaught, archives,
                    storeVars, keyVars, credVars >>

\* PASS 1 is over: nothing to publish, or on to PASS 2.
EndScan ==
    /\ pc = "pass1" /\ i > Len(paths)
    /\ IF Len(packageInfos) = 0
          THEN pc' = "done" /\ outro' = "No packages to publish"
          ELSE pc' = "pass2" /\ outro' = outro
    /\ i' = 1
    /\ UNCHANGED << disk, disk0, paths, versionArg, publishingVersion, deps,
                    packageInfos, restoreMap, packedPackages, uploadResults,
                    written, packLog, netLog, uploadRes, runLog, uncaught, archives,
                    storeVars, keyVars, credVars >>

\* PASS 2, one iteration: read the file as it is now, write the hijacked
\* pJson and keep the restore function under the path.
MutateInMemoryOnly ==
    /\ pc = "pass2" /\ i <= Len(packageInfos)
    /\ LET p == packageInfos[i].path
           originalContents == disk[p]
           hijacked == HijackedJson(packageInfos[i].pJson, deps)
       IN /\ disk' = disk
          /\ packageInfos' = [ packageInfos EXCEPT ![i].pJson = hijacked ]
          /\ restoreMap' = OrderedSet(restoreMap, p, RestoreContents(originalContents))
          /\ written' = written \cup { p }
    /\ IF i = Len(packageInfos)
          THEN pc' = "pass3" /\ i' = 1
          ELSE pc' = pc /\ i' = i + 1
    /\ UNCHANGED << disk0, paths, versionArg, publishingVersion, deps,
                    packedPackages, uploadResults, outro, packLog, netLog,
                    uploadRes, runLog, uncaught, archives,
                    storeVars, keyVars, credVars >>

\* PASS 2, one iteration: read the file as it is now, write the hijacked
\* pJson and keep the restore function under the path.
Mutate ==
    /\ pc = "pass2" /\ i <= Len(packageInfos)
    /\ LET p == packageInfos[i].path
           originalContents == disk[p]
           hijacked == HijackedJson(packageInfos[i].pJson, deps)
       IN /\ disk' = [ disk EXCEPT ![p] = Stringify(hijacked) ]
          /\ packageInfos' = [ packageInfos EXCEPT ![i].pJson = hijacked ]
          /\ restoreMap' = OrderedSet(restoreMap, p, RestoreContents(originalContents))
          /\ written' = written \cup { p }
    /\ IF i = Len(packageInfos)
          THEN pc' = "pass3" /\ i' = 1
          ELSE pc' = pc /\ i' = i + 1
    /\ UNCHANGED << disk0, paths, versionArg, publishingVersion, deps,
                    packedPackages, uploadResults, outro, packLog, netLog, uploadRes, runLog, uncaught, archives,
                    storeVars, keyVars, credVars >>

\* stats.size: the length of the file in bytes.
FileSize(bytes) == << "length", bytes >>

\* What pack may meet: the exit code of the packing tool, whether the tool
\* wrote the archive, whether readFile and unlink work on it.
PackEnvs ==
    [ exitCode : { 0, 1 }, produced : BOOLEAN, readable : BOOLEAN, unlinkOk : BOOLEAN ]

FailedToPack == "Failed to pack"

NoOutputFile ==
    "Pack command returned success but no output file was found, this is likely a bug"

\* pack: the archive holds the package.json the directory has at that moment.
PackResult(p, pJson) ==
    LET file == << "tgz", disk[p] >>
    IN [ filename |-> << p, "/" >> \o PackageIdentifier(pJson) \o << ".tgz" >>,
         file |-> file, sha256 |-> Sha256Hex(file), size |-> FileSize(file) ]

\* The archive files on disk when the packing tool has exited.
AfterTool(env, filename) ==
    IF env.produced THEN archives \cup { filename } ELSE archives

\* pack(options) in the order of its statements: what it throws, what it
\* returns, and the archive files it leaves on disk.
packKeepsArchive(p, pJson, keepFile, env) ==
    LET filename == PackResult(p, pJson).filename
        onDisk == AfterTool(env, filename)
        file == IF filename \in onDisk /\ env.readable
                   THEN Some(PackResult(p, pJson).file) ELSE None
    IN IF env.exitCode # 0
          THEN [ threw |-> FailedToPack, archives |-> onDisk, result |-> None ]
       ELSE IF filename \notin onDisk
          THEN [ threw |-> "ENOENT: no such file or directory, stat",
                 archives |-> onDisk, result |-> None ]
       ELSE IF file = None
          THEN [ threw |-> NoOutputFile, archives |-> onDisk, result |-> None ]
       ELSE [ threw |-> "none", archives |-> onDisk,
              result |-> Some(PackResult(p, pJson)) ]

\* pack(options) in the order of its statements: what it throws, what it
\* returns, and the archive files it leaves on disk.
pack(p, pJson, keepFile, env) ==
    LET filename == PackResult(p, pJson).filename
        onDisk == AfterTool(env, filename)
        file == IF filename \in onDisk /\ env.readable
                   THEN Some(PackResult(p, pJson).file) ELSE None
    IN IF env.exitCode # 0
          THEN [ threw |-> FailedToPack, archives |-> onDisk, result |-> None ]
       ELSE IF filename \notin onDisk
          THEN [ threw |-> "ENOENT: no such file or directory, stat",
                 archives |-> onDisk, result |-> None ]
       ELSE IF file = None
          THEN [ threw |-> NoOutputFile, archives |-> onDisk, result |-> None ]
       ELSE IF ~keepFile /\ ~env.unlinkOk
          THEN [ threw |-> "unlink failed", archives |-> onDisk, result |-> None ]
       ELSE [ threw |-> "none",
              archives |-> IF keepFile THEN onDisk ELSE onDisk \ { filename },
              result |-> Some(PackResult(p, pJson)) ]

\* What a pack invocation met, for the history: the tool failed, the tool
\* left no archive, the archive could not be read or could not be removed.
PackOutcome(env, onDisk, filename, keepFile) ==
    IF env.exitCode # 0 THEN "nonzero-exit"
    ELSE IF filename \notin onDisk THEN "no-file"
    ELSE IF ~env.readable THEN "unreadable"
    ELSE IF ~keepFile /\ ~env.unlinkOk THEN "unlink-failed"
    ELSE "ok"

\* PASS 3, one iteration.  Nothing in PASS 3 catches what pack throws.
Pack ==
    /\ pc = "pass3" /\ i <= Len(packageInfos)
    /\ \E env \in PackEnvs :
         LET r == pack(packageInfos[i].path, packageInfos[i].pJson, FALSE, env)
             filename == PackResult(packageInfos[i].path, packageInfos[i].pJson).filename
         IN /\ packLog' = Append(packLog,
                                  PackOutcome(env, AfterTool(env, filename), filename, FALSE))
            /\ archives' = r.archives
            /\ uncaught' = r.threw
            /\ IF r.threw = "none"
                  THEN /\ packedPackages' =
                            Append(packedPackages,
                                   [ path |-> packageInfos[i].path,
                                     pJson |-> packageInfos[i].pJson,
                                     packResult |-> r.result[1] ])
                       /\ IF i = Len(packageInfos)
                             THEN pc' = "pass4" /\ i' = 1
                             ELSE pc' = pc /\ i' = i + 1
                  ELSE /\ pc' = "aborted"
                       /\ UNCHANGED << packedPackages, i >>
    /\ UNCHANGED << disk, disk0, paths, versionArg, publishingVersion, deps,
                    packageInfos, restoreMap, uploadResults, outro, written, netLog,
                    uploadRes, runLog, storeVars, keyVars, credVars >>

\* PASS 4, one iteration: run one restore function of restoreMap.values().
Restore ==
    /\ pc = "pass4" /\ i <= Len(restoreMap)
    /\ disk' = [ disk EXCEPT ![restoreMap[i].key] = restoreMap[i].value ]
    /\ IF i = Len(restoreMap)
          THEN pc' = "pass5" /\ i' = 1
          ELSE pc' = pc /\ i' = i + 1
    /\ UNCHANGED << disk0, paths, versionArg, publishingVersion, deps,
                    packageInfos, restoreMap, packedPackages, uploadResults,
                    outro, written, packLog, netLog, uploadRes, runLog, uncaught, archives,
                    storeVars, keyVars, credVars >>

\* PASS 5, one task: POST the archive and classify the answer.
Upload ==
    /\ pc = "pass5" /\ i <= Len(packedPackages)
    /\ LET pkg == packedPackages[i]
           packageUrl == deps[pkg.pJson.name[1]]
           localSha == pkg.packResult.sha256
       IN \E kind \in ResponseKinds :
            LET outcome ==
                  IF kind = "network-error"
                     THEN [ status |-> "error",
                            errorMessage |-> [ NoMessage EXCEPT !.kind = "thrown" ] ]
                     ELSE UploadOutcome(Response(kind, localSha), localSha)
            IN uploadResults' =
                  Append(uploadResults,
                         [ name |-> pkg.pJson.name[1], packageUrl |-> packageUrl,
                           status |-> outcome.status,
                           errorMessage |-> outcome.errorMessage ])
    /\ netLog' = Append(netLog, [ call |-> "upload", mutated |-> IsMutated ])
    /\ IF i = Len(packedPackages)
          THEN pc' = "report" /\ i' = 1
          ELSE pc' = pc /\ i' = i + 1
    /\ UNCHANGED << disk, disk0, paths, versionArg, publishingVersion, deps,
                    packageInfos, restoreMap, packedPackages,
                    outro, written, packLog, uploadRes, runLog, uncaught, archives,
                    storeVars, keyVars, credVars >>

CountStatus(status) ==
    Cardinality({ n \in 1 .. Len(uploadResults) : uploadResults[n].status = status })

\* The closing message.
ReportPublishedOnly ==
    /\ pc = "report"
    /\ outro' = IF CountStatus("success") > 0 THEN "Successfully published"
                ELSE "No packages were published"
    /\ pc' = "done"
    /\ UNCHANGED << i, disk, disk0, paths, versionArg, publishingVersion, deps,
                    packageInfos, restoreMap, packedPackages, uploadResults,
                    written, packLog, netLog, uploadRes, runLog, uncaught, archives,
                    storeVars, keyVars, credVars >>

Report ==
    /\ pc = "report"
    /\ outro' = IF CountStatus("success") > 0 THEN "Successfully published"
                ELSE IF CountStatus("exists") > 0
                   THEN "All packages already exist with the same content"
                ELSE "No packages were published"
    /\ pc' = "done"
    /\ UNCHANGED << i, disk, disk0, paths, versionArg, publishingVersion, deps,
                    packageInfos, restoreMap, packedPackages, uploadResults,
                    written, packLog, netLog, uploadRes, runLog, uncaught, archives,
                    storeVars, keyVars, credVars >>

PubNext ==
    \/ GetCredentials
    \/ ResolveVersion
    \/ GetUsername
    \/ Discover
    \/ EndScan
    \/ Mutate
    \/ Pack
    \/ Restore
    \/ Upload
    \/ Report

\* One run of `preview-pkg publish`.
Init == PubInit /\ StoreIdle /\ KeyIdle /\ CredIdle

Spec == Init /\ [][PubNext]_vars

(***************************************************************************)
(* writeDeps and its restore function on their own: one package.json, any  *)
(* dependency map.                                                         *)
(***************************************************************************)
RewriteDir == "d1"

\* A dependency field: absent, or any set of workspace and foreign names.
DepFields ==
    { None } \cup
    { Some([ n \in S |-> Workspace ]) : S \in SUBSET { <<"b">>, <<"c">>, <<"x">> } }

RewriteTexts ==
    { [ layout |-> layout,
        json |-> [ JsonA EXCEPT !.dependencies = runtime,
                                !.devDependencies = development,
                                !.optionalDependencies = optional,
                                !.peerDependencies = peer ] ] :
        layout \in { "pretty", "indent2" },
        runtime \in DepFields, development \in DepFields, optional \in DepFields,
        peer \in { None, Some([ n \in { <<"b">> } |-> Workspace ]) } }

RewriteDeps ==
    { [ n \in S |-> PackageUrl(ClientLogin, n, <<"7">>) ] :
        S \in SUBSET { <<"b">>, <<"c">>, <<"constructor">> } }

RewriteInit ==
    /\ pc = "rewrite"
    /\ i = 1
    /\ \E text \in RewriteTexts :
         /\ disk = [ d \in Dirs |-> IF d = RewriteDir THEN text ELSE MissingFile ]
         /\ packageInfos = << [ path |-> RewriteDir, pJson |-> text.json ] >>
    /\ disk0 = disk
    /\ paths = << RewriteDir >>
    /\ versionArg = Some(<<"7">>)
    /\ publishingVersion = versionArg
    /\ deps \in RewriteDeps
    /\ restoreMap = << >>
    /\ packedPackages = << >>
    /\ uploadResults = << >>
    /\ outro = "none"
    /\ written = {}
    /\ packLog = << >>
    /\ netLog = << >>
    /\ uploadRes = None
    /\ runLog = << >>
    /\ uncaught = "none"
    /\ archives = {}

\* writeDeps(pJsonPath, originalContents, pJson, deps)
WriteDeps ==
    /\ pc = "rewrite"
    /\ LET p == packageInfos[1].path
           originalContents == disk[p]
           hijacked == HijackedJson(packageInfos[1].pJson, deps)
       IN /\ disk' = [ disk EXCEPT ![p] = Stringify(hijacked) ]
          /\ packageInfos' = [ packageInfos EXCEPT ![1].pJson = hijacked ]
          /\ restoreMap' = OrderedSet(restoreMap, p, RestoreContents(originalContents))
          /\ written' = written \cup { p }
    /\ pc' = "rewritten"
    /\ UNCHANGED << i, disk0, paths, versionArg, publishingVersion, deps,
                    packedPackages, uploadResults, outro, packLog, netLog,
                    uploadRes, runLog, uncaught, archives,
                    storeVars, keyVars, credVars >>

\* The function writeDeps returned.
RunRestore ==
    /\ pc = "rewritten"
    /\ disk' = [ disk EXCEPT ![restoreMap[1].key] = restoreMap[1].value ]
    /\ pc' = "restored"
    /\ UNCHANGED << i, disk0, paths, versionArg, publishingVersion, deps,
                    packageInfos, restoreMap, packedPackages, uploadResults,
                    outro, written, packLog, netLog, uploadRes, runLog, uncaught, archives,
                    storeVars, keyVars, credVars >>

RewriteNext == WriteDeps \/ RunRestore

InitRewrite == RewriteInit /\ StoreIdle /\ KeyIdle /\ CredIdle

\* writeDeps followed by its restore function, on every manifest and map.
SpecRewrite == InitRewrite /\ [][RewriteNext]_vars

(***************************************************************************)
(* One upload task on every answer fetch may give it.                      *)
(***************************************************************************)
\* uploadRes.status
HttpStatuses == { 200, 201, 400, 401, 409, 500 }

\* What v.safeParse made of the body: an object with a string `message`, one
\* with a string `error`, or no such object.
ParsedBodies == { "message", "error", "unparseable" }

\* The answers: any status, any body, with or without a sha256 member that
\* is or is not the digest of the packed archive.
Responses(localSha) ==
    { r \in [ status : HttpStatuses, parsed : ParsedBodies,
              sha256 : { None, Some(localSha), Some(Sha256Hex(<<"other", localSha>>)) } ] :
        r.parsed = "unparseable" => r.sha256 = None }

TaskInit ==
    /\ pc = "pass5"
    /\ i = 1
    /\ \E text \in { [ layout |-> "pretty", json |-> JsonB ],
                      [ layout |-> "indent2", json |-> JsonB ] } :
         disk = [ d \in Dirs |-> IF d = "d1" THEN text ELSE MissingFile ]
    /\ disk0 = disk
    /\ paths = << "d1" >>
    /\ versionArg = Some(<<"7">>)
    /\ publishingVersion = versionArg
    /\ deps = MapSet(<< >>, <<"b">>, PackageUrl(ClientLogin, <<"b">>, <<"7">>))
    /\ packageInfos = << [ path |-> "d1", pJson |-> JsonB ] >>
    /\ restoreMap = << [ key |-> "d1", value |-> disk["d1"] ] >>
    /\ packedPackages = << [ path |-> "d1", pJson |-> JsonB,
                             packResult |-> PackResult("d1", JsonB) ] >>
    /\ uploadResults = << >>
    /\ outro = "none"
    /\ written = { "d1" }
    /\ packLog = << "ok" >>
    /\ netLog = << >>
    /\ uploadRes \in { None } \cup
                     { Some(r) : r \in Responses(packedPackages[1].packResult.sha256) }
    /\ runLog = << >>
    /\ uncaught = "none"
    /\ archives = {}

\* The task of PASS 5 for the answer in uploadRes; fetch threw when there is
\* none, and the catch block records the error.
Classify ==
    /\ pc = "pass5" /\ i <= Len(packedPackages)
    /\ LET pkg == packedPackages[i]
           localSha == pkg.packResult.sha256
           outcome ==
             IF uploadRes = None
                THEN [ status |-> "error",
                       errorMessage |-> [ NoMessage EXCEPT !.kind = "thrown" ] ]
                ELSE UploadOutcome(uploadRes[1], localSha)
       IN uploadResults' =
             Append(uploadResults,
                    [ name |-> pkg.pJson.name[1],
                      packageUrl |-> deps[pkg.pJson.name[1]],
                      status |-> outcome.status,
                      errorMessage |-> outcome.errorMessage ])
    /\ netLog' = Append(netLog, [ call |-> "upload", mutated |-> IsMutated ])
    /\ pc' = "report"
    /\ UNCHANGED << i, disk, disk0, paths, versionArg, publishingVersion, deps,
                    packageInfos, restoreMap, packedPackages,
                    outro, written, packLog, uploadRes, runLog, uncaught, archives,
                    storeVars, keyVars, credVars >>

TaskNext == Classify \/ Report

InitTask == TaskInit /\ StoreIdle /\ KeyIdle /\ CredIdle

SpecTask == InitTask /\ [][TaskNext]_vars

(***************************************************************************)
(* The publish command run again and again against the worker: the upload  *)
(* of PASS 5 is a POST the worker handles, and its answer is what the task *)
(* classifies.                                                             *)
(***************************************************************************)
\* String.prototype.split with a one-character separator.
RECURSIVE Split(_, _)
Split(str, ch) ==
    IF \E n \in 1 .. Len(str) : str[n] = ch
       THEN LET at == CHOOSE n \in 1 .. Len(str) :
                        str[n] = ch /\ \A m \in 1 .. n - 1 : str[m] # ch
            IN << SubSeq(str, 1, at - 1) >> \o Split(SubSeq(str, at + 1, Len(str)), ch)
       ELSE << str >>

\* Array destructuring: the n-th element, undefined when there is none.
Element(parts, n) == IF n <= Len(parts) THEN Some(parts[n]) ELSE None

\* The route "/:username/:package{.+}" on the path of a URL.
RouteParams(url) ==
    LET rest == Tail(Tail(url))
        username == Split(rest, "/")[1]
    IN [ username |-> username,
         package |-> SubSeq(rest, Len(username) + 2, Len(rest)) ]

\* The transform of PackageParams.package.  A value that starts with "@"
\* and has no "/" leaves `name` undefined, and `name.split` throws.
ParsePackage(str) ==
    IF str # << >> /\ str[1] = "@"
       THEN LET parts == Split(str, "/")
                name == Element(parts, 2)
                pv == IF name = None THEN << >> ELSE Split(name[1], "@")
            IN [ org |-> Some(Tail(parts[1])),
                 packageName |-> Element(pv, 1), version |-> Element(pv, 2),
                 threw |-> name = None ]
       ELSE LET pv == Split(str, "@")
            IN [ org |-> None,
                 packageName |-> Element(pv, 1), version |-> Element(pv, 2),
                 threw |-> FALSE ]

\* validatePackageParams
ValidParams(username, info) ==
    /\ ~info.threw
    /\ ValidUsername(username)
    /\ info.packageName # None /\ info.version # None
    /\ ValidPackageInfo(info.org, info.packageName[1], info.version[1])

\* The body and status of the worker's answer to a POST, as the client's
\* parser sees them.
ServerResponseNoDigest(r) ==
    [ status |-> r.status,
      parsed |-> IF r.status = 201 THEN "message" ELSE "error",
      sha256 |-> None ]

ServerResponse(r) ==
    [ status |-> r.status,
      parsed |-> IF r.status = 201 THEN "message" ELSE "error",
      sha256 |-> r.sha ]

\* Package b as the developer may have it between two runs.
RerunTexts ==
    { [ layout |-> "pretty", json |-> JsonB ],
      [ layout |-> "indent2", json |-> JsonB ],
      [ layout |-> "pretty", json |-> [ JsonB EXCEPT !.version = Some(<<"3">>) ] ] }

RerunInit ==
    /\ pc = "credentials"
    /\ i = 1
    /\ \E text \in RerunTexts :
         disk = [ d \in Dirs |-> IF d = "d1" THEN text ELSE MissingFile ]
    /\ disk0 = disk
    /\ paths = << "d1" >>
    /\ versionArg \in { None, Some(<<"7">>) }
    /\ publishingVersion = None
    /\ deps = << >>
    /\ packageInfos = << >>
    /\ restoreMap = << >>
    /\ packedPackages = << >>
    /\ uploadResults = << >>
    /\ outro = "none"
    /\ written = {}
    /\ packLog = << >>
    /\ netLog = << >>
    /\ uploadRes = None
    /\ runLog = << >>
    /\ uncaught = "none"
    /\ archives = {}

\* PASS 5, the fetch of one task: the POST reaches the worker, which routes
\* and validates it; the token is the one of the stored credential.
SendUpload ==
    /\ pc = "pass5" /\ i <= Len(packedPackages)
    /\ LET pkg == packedPackages[i]
           route == RouteParams(deps[pkg.pJson.name[1]])
           info == ParsePackage(route.package)
           valid == ValidParams(route.username, info)
           k == storageKey(route.username, info.org,
                           info.packageName[1], info.version[1])
       IN reqs' = [ reqs EXCEPT ![1] =
                      [ kind |-> "POST",
                        pc |-> IF valid THEN "auth" ELSE "done",
                        username |-> route.username, org |-> info.org,
                        packageName |-> IF valid THEN info.packageName[1] ELSE << >>,
                        version |-> IF valid THEN info.version[1] ELSE << >>,
                        login |-> ClientLogin,
                        tarball |-> pkg.packResult.file,
                        sha256 |-> pkg.packResult.sha256,
                        status |-> IF valid THEN 0 ELSE 400,
                        sha |-> None, body |-> None,
                        seen |-> IF valid /\ k \in DOMAIN store
                                    THEN Some(store[k].body) ELSE None ] ]
    /\ nreq' = nreq + 1
    /\ netLog' = Append(netLog, [ call |-> "upload", mutated |-> IsMutated ])
    /\ pc' = "awaiting"
    /\ UNCHANGED << i, disk, disk0, paths, versionArg, publishingVersion, deps,
                    packageInfos, restoreMap, packedPackages, uploadResults,
                    outro, written, packLog, uploadRes, runLog,
                    uncaught, archives, store, concurrent, firstBody, keyVars, credVars >>

\* PASS 5, the rest of the task: the answer is classified, or fetch threw.
ReceiveUpload ==
    /\ pc = "awaiting" /\ reqs[1].pc = "done"
    /\ \E thrown \in BOOLEAN :
         LET pkg == packedPackages[i]
             localSha == pkg.packResult.sha256
             res == ServerResponse(reqs[1])
             outcome ==
               IF thrown
                  THEN [ status |-> "error",
                         errorMessage |-> [ NoMessage EXCEPT !.kind = "thrown" ] ]
                  ELSE UploadOutcome(res, localSha)
         IN /\ uploadRes' = IF thrown THEN None ELSE Some(res)
            /\ uploadResults' =
                  Append(uploadResults,
                         [ name |-> pkg.pJson.name[1],
                           packageUrl |-> deps[pkg.pJson.name[1]],
                           status |-> outcome.status,
                           errorMessage |-> outcome.errorMessage ])
    /\ IF i = Len(packedPackages)
          THEN pc' = "report" /\ i' = 1
          ELSE pc' = "pass5" /\ i' = i + 1
    /\ UNCHANGED << disk, disk0, paths, versionArg, publishingVersion, deps,
                    packageInfos, restoreMap, packedPackages,
                    outro, written, packLog, netLog, runLog, uncaught, archives,
                    storeVars, keyVars, credVars >>

\* What a finished run leaves behind: its outcomes, its closing message and
\* the archives it packed.
RunReport ==
    [ results |-> uploadResults, outro |-> outro,
      archives |-> [ n \in 1 .. Len(packedPackages) |->
                       packedPackages[n].packResult.file ] ]

\* The command is started again on the same directory, with the same
\* --version option, after the developer may have changed the package.
Rerun ==
    /\ Terminated
    /\ Len(runLog) + 1 < MaxRuns
    /\ runLog' = Append(runLog, RunReport)
    /\ \E text \in RerunTexts \cup { disk["d1"] } :
         disk' = [ disk EXCEPT !["d1"] = text ]
    /\ disk0' = disk'
    /\ pc' = "credentials"
    /\ i' = 1
    /\ publishingVersion' = None
    /\ deps' = << >>
    /\ packageInfos' = << >>
    /\ restoreMap' = << >>
    /\ packedPackages' = << >>
    /\ uploadResults' = << >>
    /\ outro' = "none"
    /\ written' = {}
    /\ packLog' = << >>
    /\ netLog' = << >>
    /\ uploadRes' = None
    /\ uncaught' = "none"
    /\ UNCHANGED << paths, versionArg, archives, storeVars, keyVars, credVars >>

RerunNext ==
    \/ GetCredentials
    \/ ResolveVersion
    \/ GetUsername
    \/ Discover
    \/ EndScan
    \/ Mutate
    \/ Pack
    \/ Restore
    \/ SendUpload
    \/ \E s \in Slots : AuthPost(s)
    \/ \E s \in Slots : HeadPost(s)
    \/ \E s \in Slots : PutPost(s)
    \/ ReceiveUpload
    \/ Report
    \/ Rerun

InitRerun == RerunInit /\ StoreInit /\ concurrent = FALSE /\ KeyIdle /\ CredIdle

SpecRerun == InitRerun /\ [][RerunNext]_vars

(***************************************************************************)
(* The worker on requests as they arrive: any path the route matches, and  *)
(* validatePackageParams in front of both handlers.                        *)
(***************************************************************************)
\* A string of n letters.
Letters(n) == [ k \in 1 .. n |-> "a" ]

\* Values of the :username segment.
RawUsernames ==
    { <<"u">>, <<"U">>, <<"u", "_">>, Letters(MaxUsernameLength + 1) }

\* Values of the :package{.+} segment.
RawPackages ==
    { <<"b", "@", "1">>,
      <<"b", "@", "1", "@", "2">>,
      <<"b", "@", "1", "/", "c">>,
      <<"@", "a", "/", "b", "@", "1">>,
      <<"@", "a", "/", "b", "@", "1", "/", "c">>,
      <<"@", "a", "/", "b", "@", "1", "@", "2">>,
      <<"@", "a", "/", "b">>,
      <<"@", "/", "b", "@", "1">>,
      <<"@", "a">>,
      <<"b">>,
      <<"b", "@">>,
      <<"@", "1">>,
      <<"B", "@", "1">>,
      <<"b", "_", "@", "1">>,
      Letters(MaxSegmentLength + 1) \o <<"@", "1">>,
      <<"b", "@">> \o Letters(MaxSegmentLength + 1) }

\* The request as the worker holds it once the param validator has run: an
\* exception of the transform is answered 500 by the framework, a failed
\* validation 400 by the hook, and only an accepted path reaches the handler.
Received(kind, username, package, login, tarball, sha256) ==
    LET info == ParsePackage(package)
        valid == ValidParams(username, info)
        k == storageKey(username, info.org, info.packageName[1], info.version[1])
    IN [ kind |-> kind,
         pc |-> IF ~valid THEN "done" ELSE IF kind = "POST" THEN "auth" ELSE "head",
         username |-> username,
         org |-> IF valid THEN info.org ELSE None,
         packageName |-> IF valid THEN info.packageName[1] ELSE << >>,
         version |-> IF valid THEN info.version[1] ELSE << >>,
         login |-> login, tarball |-> tarball, sha256 |-> sha256,
         status |-> IF info.threw THEN 500 ELSE IF ~valid THEN 400 ELSE 0,
         sha |-> None, body |-> None,
         seen |-> IF ~valid THEN None
                  ELSE IF kind = "POST"
                     THEN (IF k \in DOMAIN store THEN Some(store[k].body) ELSE None)
                  ELSE (IF k \in DOMAIN firstBody THEN Some(firstBody[k]) ELSE None),
         raw |-> [ username |-> username, package |-> package ] ]

\* app.post on any path.
ReceivePost(s) ==
    /\ CanStart(s)
    /\ nreq < MaxPosts
    /\ \E username \in RawUsernames, package \in RawPackages,
          login \in Usernames, tarball \in Blobs :
       \E sha256 \in SuppliedDigests(tarball) :
          reqs' = [ reqs EXCEPT ![s] =
                      Received("POST", username, package, login, tarball, sha256) ]
    /\ nreq' = nreq + 1
    /\ UNCHANGED << store, concurrent, firstBody, keyVars, pubVars, credVars >>

\* app.get on any path.
ReceiveGet(s) ==
    /\ CanStart(s)
    /\ \E username \in RawUsernames, package \in RawPackages :
          reqs' = [ reqs EXCEPT ![s] =
                      Received("GET", username, package, None, "", None) ]
    /\ UNCHANGED << store, nreq, concurrent, firstBody, keyVars, pubVars, credVars >>

RouteNext ==
    \E s \in Slots :
        \/ ReceivePost(s)
        \/ AuthPost(s)
        \/ HeadPost(s)
        \/ PutPost(s)
        \/ ReceiveGet(s)
        \/ HeadGet(s)
        \/ BodyGet(s)

InitRoute == StoreInit /\ concurrent = FALSE /\ KeyIdle /\ PubIdle /\ CredIdle

SpecRoute == InitRoute /\ [][RouteNext]_vars

\* The param validator on two request paths: the storage key each resolves
\* to, or none when the path is not accepted.
ResolveInit ==
    /\ keyArgs \in [ username : RawUsernames, package : RawPackages ]
                      \X [ username : RawUsernames, package : RawPackages ]
    /\ keyOut = None

Resolved(path) ==
    LET info == ParsePackage(path.package)
    IN IF ValidParams(path.username, info)
          THEN Some(storageKey(path.username, info.org,
                               info.packageName[1], info.version[1]))
          ELSE None

ResolveKeys ==
    /\ keyOut = None
    /\ keyOut' = << Resolved(keyArgs[1]), Resolved(keyArgs[2]) >>
    /\ UNCHANGED << keyArgs, storeVars, pubVars, credVars >>

ResolveNext == ResolveKeys

InitResolve == ResolveInit /\ StoreIdle /\ PubIdle /\ CredIdle

SpecResolve == InitResolve /\ [][ResolveNext]_vars

\* The worker handling requests as they come, interleaved at every await.
InitStore == StoreInit /\ concurrent = TRUE /\ KeyIdle /\ PubIdle /\ CredIdle

SpecStore == InitStore /\ [][StoreNext]_vars

\* The worker handling one request at a time.
InitStoreSeq == StoreInit /\ concurrent = FALSE /\ KeyIdle /\ PubIdle /\ CredIdle

SpecStoreSeq == InitStoreSeq /\ [][StoreNext]_vars

\* storageKey on every pair of coordinates.
InitKey == KeyInit /\ StoreIdle /\ PubIdle /\ CredIdle

SpecKey == InitKey /\ [][KeyNext]_vars

\* An object the bucket holds that was not written by the worker's put: R2
\* records a SHA-256 checksum only for a put that supplied one.
ForeignObject ==
    [ body |-> "x", sha256 |-> None,
      customMetadata |-> [ org |-> << >>, packageName |-> << >>, version |-> << >> ],
      uploader |-> << >> ]

ForeignKey == storageKey(<<"u">>, None, <<"b">>, <<"1">>)

\* The worker bound to a bucket that already holds such an object, handling
\* one request at a time.
InitStoreForeign ==
    /\ store = [ k \in { ForeignKey } |-> ForeignObject ]
    /\ reqs = [ s \in Slots |-> Idle ]
    /\ nreq = 0
    /\ firstBody = << >>
    /\ concurrent = FALSE
    /\ KeyIdle
    /\ PubIdle
    /\ CredIdle

SpecStoreForeign == InitStoreForeign /\ [][StoreNext]_vars

(***************************************************************************)
(* Properties of the package store.                                        *)
(***************************************************************************)
PostDone(s) == reqs[s].kind = "POST" /\ reqs[s].pc = "done"

GetDone(s) == reqs[s].kind = "GET" /\ reqs[s].pc = "done"

ShaMismatch(r) == FromHex(r.sha256) # Sha256Raw(r.tarball)

IdentityPrefix(login) == <<"preview-pkg/">> \o login \o <<"/">>

HasPrefix(k, p) == Len(k) >= Len(p) /\ SubSeq(k, 1, Len(p)) = p

\* The step is one of the request in slot s.
StepOf(s) == reqs'[s] # reqs[s]

\* C5: with requests handled one after the other, a POST (by the login the
\* path names) to a key that held an object when the request arrived is
\* answered 409 with the checksum recorded for that object, and no step ever
\* changes or removes an object the bucket holds, whatever bytes and checksum
\* the request carries.
C5_ConflictAnswered ==
    \A s \in Slots :
        (PostDone(s) /\ reqs[s].seen # None /\ reqs[s].login = reqs[s].username)
            => /\ reqs[s].status = 409
               /\ KeyOf(reqs[s]) \in DOMAIN store
               /\ store[KeyOf(reqs[s])].body = reqs[s].seen[1]
               /\ reqs[s].sha = Some(Sha256Hex(reqs[s].seen[1]))
               /\ reqs[s].sha = Some(ToHex(store[KeyOf(reqs[s])].sha256[1]))

C5_ObjectsKept ==
    \A k \in DOMAIN store : k \in DOMAIN store' /\ store'[k] = store[k]

C5_ExistingObjectImmutable == []C5_ConflictAnswered /\ [][C5_ObjectsKept]_vars

\* C5 witness: a POST carrying other bytes than the stored ones got its 409.
C5_Witness ==
    \E s \in Slots :
        /\ PostDone(s) /\ reqs[s].status = 409
        /\ reqs[s].seen # None /\ reqs[s].seen[1] # reqs[s].tarball
        /\ store[KeyOf(reqs[s])].body = reqs[s].seen[1]

\* C6: two POST requests to the same key that are handled concurrently are
\* never both answered 201.
C6_AtMostOneCreated ==
    \A s1, s2 \in Slots :
        (s1 # s2 /\ PostDone(s1) /\ PostDone(s2)
            /\ KeyOf(reqs[s1]) = KeyOf(reqs[s2]))
            => ~(reqs[s1].status = 201 /\ reqs[s2].status = 201)

\* C7: a POST whose credential belongs to another login than the one in the
\* path never gets past the identity check (no head, no put), is answered 401
\* and none of its steps changes the bucket; every object of the bucket lies
\* under the identity prefix of the login that uploaded it.
C7_RejectedAtIdentityCheck ==
    /\ \A s \in Slots :
         (reqs[s].kind = "POST" /\ reqs[s].login # reqs[s].username)
            => /\ reqs[s].pc \in {"auth", "done"}
               /\ reqs[s].pc = "done" => reqs[s].status = 401
    /\ \A k \in DOMAIN store : HasPrefix(k, IdentityPrefix(store[k].uploader))

C7_NoStorageAccess ==
    \A s \in Slots :
        (reqs[s].kind = "POST" /\ reqs[s].login # reqs[s].username /\ StepOf(s))
            => store' = store

C7_IdentityEnforced == []C7_RejectedAtIdentityCheck /\ [][C7_NoStorageAccess]_vars

\* C7 witness: a login was refused a POST aimed at an existing object of
\* another identity.
C7_Witness ==
    \E s \in Slots :
        /\ PostDone(s) /\ reqs[s].status = 401
        /\ reqs[s].login # reqs[s].username
        /\ KeyOf(reqs[s]) \in DOMAIN store

C9_MismatchAnswer ==
    \A s \in Slots :
        (PostDone(s) /\ ShaMismatch(reqs[s]))
            => /\ reqs[s].status \in {400, 401, 409, 500}
               /\ reqs[s].status = 401 <=> reqs[s].login # reqs[s].username

C9_MismatchStep ==
    \A s \in Slots :
        (reqs[s].kind = "POST" /\ reqs[s].pc # "done"
            /\ ShaMismatch(reqs[s]) /\ StepOf(s))
            => /\ store' = store
               /\ reqs[s].pc = "put" => reqs'[s].status \in {400, 500}
               /\ reqs'[s].status = 409 =>
                    /\ reqs[s].pc = "head"
                    /\ KeyOf(reqs[s]) \in DOMAIN store
                    /\ reqs'[s].sha = Some(ToHex(store[KeyOf(reqs[s])].sha256[1]))

C10_GetReturnsCreatedBytes ==
    \A s \in Slots :
        GetDone(s) =>
            /\ reqs[s].seen # None =>
                 (reqs[s].status = 200 /\ reqs[s].body = reqs[s].seen)
            /\ KeyOf(reqs[s]) \notin DOMAIN store => reqs[s].status = 404

\* C11: a GET is answered with the archive bytes only when the object at its
\* key has a recorded checksum; it is answered not found, without bytes, when
\* the key holds no object and when the object has no recorded checksum.
C11_FetchStep ==
    \A s \in Slots :
        (reqs[s].kind = "GET" /\ StepOf(s) /\ reqs'[s].pc = "done")
            => LET k == KeyOf(reqs[s])
                   recorded == k \in DOMAIN store /\ store[k].sha256 # None
               IN /\ recorded => (reqs'[s].status = 200
                                    /\ reqs'[s].body = Some(store[k].body))
                  /\ ~recorded => (reqs'[s].status = 404 /\ reqs'[s].body = None)

C11_FetchNeedsChecksum == [][C11_FetchStep]_vars

(***************************************************************************)
(* Properties of storageKey.                                               *)
(***************************************************************************)
\* C8: two coordinates that pass validation and get the same storage key are
\* the same (identity, owner, name, version); the scoped coordinate
\* {owner a, name b, version 1} and the unscoped {name a__b, version 1} get
\* different keys under every identity.
C8_KeyInjective ==
    /\ (keyOut # None /\ ValidCoordinate(keyArgs[1]) /\ ValidCoordinate(keyArgs[2])
            /\ keyOut[1] = keyOut[2])
          => keyArgs[1] = keyArgs[2]
    /\ keyOut # None =>
          storageKey(keyArgs[1].username, Some(<<"a">>), <<"b">>, <<"1">>)
             # storageKey(keyArgs[1].username, None, <<"a", "_", "_", "b">>, <<"1">>)

\* C8 witness: a scoped and an unscoped valid coordinate with the same identity
\* and version, whose names contain a dash, got different keys.
C8_Witness ==
    /\ keyOut # None
    /\ ValidCoordinate(keyArgs[1]) /\ ValidCoordinate(keyArgs[2])
    /\ keyArgs[1].org # None /\ keyArgs[2].org = None
    /\ keyArgs[1].username = keyArgs[2].username
    /\ keyArgs[1].version = keyArgs[2].version
    /\ keyArgs[2].packageName = keyArgs[1].org[1] \o keyArgs[1].packageName
    /\ keyOut[1] # keyOut[2]

(***************************************************************************)
(* Properties of the publish command.                                      *)
(***************************************************************************)
\* C1: when the run has terminated, on whatever path, every package.json that
\* PASS 2 wrote holds the text it had when the run started.
C1_ManifestsRestoredAtExit ==
    Terminated => \A d \in written : disk[d] = disk0[d]

\* C2: no network call of the run (the upload requests of PASS 5 in
\* particular) is made while a package.json differs from its original text.
C2_NoNetworkWhileMutated ==
    \A n \in 1 .. Len(netLog) : ~netLog[n].mutated

\* C3: when a pack invocation failed in a batch of two or more distinct
\* surviving packages, the run is not aborted: every surviving package has been packed,
\* every written package.json is restored, every package whose pack succeeded
\* has been uploaded and the run reaches its report, with one outcome for
\* every surviving package.
C3_PackFailureIsLocal ==
    (Terminated
        /\ Cardinality({ packageInfos[n].path : n \in 1 .. Len(packageInfos) }) >= 2
        /\ \E n \in 1 .. Len(packLog) : packLog[n] # "ok")
        => /\ pc = "done"
           /\ Len(packLog) = Len(packageInfos)
           /\ \A d \in written : disk[d] = disk0[d]
           /\ Cardinality({ n \in 1 .. Len(netLog) : netLog[n].call = "upload" })
                 = Cardinality({ n \in 1 .. Len(packLog) : packLog[n] = "ok" })
           /\ Len(uploadResults) = Len(packageInfos)

\* The run got as far as the report.
ReachedReport ==
    \/ pc = "report"
    \/ /\ pc = "done"
       /\ outro \in { "Successfully published",
                      "All packages already exist with the same content",
                      "No packages were published" }

\* The directories of the surviving packages whose manifest has this name.
SurvivorsNamed(name) ==
    { packageInfos[n].path :
        n \in { m \in 1 .. Len(packageInfos) : packageInfos[m].pJson.name[1] = name } }

\* C13: when the run has reached its report, the outcome list holds exactly
\* one outcome for every surviving package, none missing and none twice, and
\* no step changes or removes an outcome that was appended.
C13_OneForEachSurvivor ==
    ReachedReport =>
        /\ Len(uploadResults)
             = Cardinality({ packageInfos[n].path : n \in 1 .. Len(packageInfos) })
        /\ \A n \in 1 .. Len(packageInfos) :
             LET name == packageInfos[n].pJson.name[1]
             IN Cardinality({ m \in 1 .. Len(uploadResults) :
                                uploadResults[m].name = name })
                  = Cardinality(SurvivorsNamed(name))

C13_OutcomeKept ==
    \A n \in 1 .. Len(uploadResults) :
        n <= Len(uploadResults') /\ uploadResults'[n] = uploadResults[n]

C13_OneOutcomePerPackage == []C13_OneForEachSurvivor /\ [][C13_OutcomeKept]_vars

\* The closing messages printed in red, and a run that ended by an exception.
FailureSignal ==
    \/ pc = "aborted"
    \/ outro \in { "Authentication required", "Version detection failed",
                   "No packages to publish", "No packages were published" }

\* The closing messages printed in green or yellow.
SuccessSignal ==
    outro \in { "Successfully published",
                "All packages already exist with the same content" }

\* Some package of the run has the outcome published or already-exists.
SomeDelivered ==
    \E n \in 1 .. Len(uploadResults) : uploadResults[n].status \in { "success", "exists" }

\* C14: a run that reached its report ends with "No packages were published"
\* exactly when no package has the outcome published or already-exists, and
\* with a success message exactly when at least one has; a run that ended
\* before its report delivered nothing and ends with a failure signal.
C14_FinalSignal ==
    Terminated =>
        /\ outro = "No packages were published" <=> (ReachedReport /\ ~SomeDelivered)
        /\ SuccessSignal <=> SomeDelivered
        /\ FailureSignal <=> ~SomeDelivered

\* C14 witness: two packages were uploaded, both ended in error, and the run
\* closed with the failure message.
C14_Witness ==
    /\ pc = "done" /\ outro = "No packages were published"
    /\ Len(uploadResults) = 2 /\ ~SomeDelivered

\* A directory PASS 1 has to skip: no parseable package.json, no name, no
\* version, or private.
Skippable(d) ==
    \/ disk0[d].layout \in { "missing", "garbage" }
    \/ disk0[d].json.name = None
    \/ disk0[d].json.version = None
    \/ disk0[d].json.private

\* PASS 1 has looked at every candidate.
Scanned ==
    \/ pc \in { "pass2", "pass3", "pass4", "pass5", "report" }
    \/ pc = "done" /\ (ReachedReport \/ outro = "No packages to publish")
    \/ pc = "aborted" /\ Len(packLog) > 0

RECURSIVE Survivors(_)
Survivors(candidates) ==
    IF candidates = << >> THEN << >>
    ELSE IF Skippable(Head(candidates)) THEN Survivors(Tail(candidates))
    ELSE << Head(candidates) >> \o Survivors(Tail(candidates))

\* C17: a candidate directory without a parseable manifest, without a name,
\* without a version or marked private is never written, packed or uploaded
\* and gives the dependency map no entry; once PASS 1 is over, the packages
\* that go on are exactly the other candidates, in their order.
C17_SkippedLeftAlone ==
    /\ \A d \in Dirs :
          Skippable(d) =>
             /\ d \notin written /\ disk[d] = disk0[d]
             /\ \A n \in 1 .. Len(packageInfos) : packageInfos[n].path # d
             /\ \A n \in 1 .. Len(packedPackages) : packedPackages[n].path # d
    /\ \A name \in DOMAIN deps :
          \E n \in 1 .. Len(packageInfos) : packageInfos[n].pJson.name[1] = name
    /\ Len(uploadResults) <= Len(packedPackages)
    /\ Scanned =>
          [ n \in 1 .. Len(packageInfos) |-> packageInfos[n].path ] = Survivors(paths)

\* C17 witness: the first candidate was skipped and the second one went on to
\* be uploaded.
C17_Witness ==
    /\ pc = "done" /\ Len(paths) = 2
    /\ Skippable(paths[1]) /\ ~Skippable(paths[2])
    /\ disk0[paths[1]].json.private
    /\ Len(uploadResults) = 1

\* C18: when no version is given and the revision cannot be resolved, the run
\* has stopped with nothing written, packed or sent; otherwise every URL of
\* the run, in the dependency map and in the outcomes, carries the one
\* publish version, which is the option when it is given.
C18_VersionOrStop ==
    /\ outro = "Version detection failed" =>
          /\ pc = "done" /\ versionArg = None
          /\ written = {} /\ disk = disk0
          /\ packLog = << >> /\ netLog = << >> /\ uploadResults = << >>
    /\ pc \in { "pass1", "pass2", "pass3", "pass4", "pass5", "report" } =>
          /\ publishingVersion # None /\ publishingVersion[1] # << >>
          /\ versionArg # None => publishingVersion = versionArg
    /\ publishingVersion # None =>
          /\ \A name \in DOMAIN deps :
                deps[name] = API_URL_BASE \o <<"/">> \o ClientLogin \o <<"/">>
                               \o name \o <<"@">> \o publishingVersion[1]
          /\ \A n \in 1 .. Len(uploadResults) :
                uploadResults[n].packageUrl = deps[uploadResults[n].name]

\* The publish version, once set, stays.
C18_VersionKept == publishingVersion # None => publishingVersion' = publishingVersion

C18_OneVersionOrNone == []C18_VersionOrStop /\ [][C18_VersionKept]_vars

\* C18 witness: a run over a publishable package stopped at the version.
C18_Witness ==
    /\ pc = "done" /\ outro = "Version detection failed"
    /\ \E n \in 1 .. Len(paths) : ~Skippable(paths[n])

\* C19: once PASS 1 is over, the dependency map holds, for every name of a
\* surviving package, the URL made of the identity, the name and the publish
\* version, which is the URL computed for the last survivor of that name;
\* two survivors of one name do not stop the run.
C19_LastNameWins ==
    Scanned =>
        /\ DOMAIN deps = { packageInfos[n].pJson.name[1] : n \in 1 .. Len(packageInfos) }
        /\ \A n \in 1 .. Len(packageInfos) :
              LET name == packageInfos[n].pJson.name[1]
                  last == CHOOSE m \in 1 .. Len(packageInfos) :
                            /\ packageInfos[m].pJson.name[1] = name
                            /\ \A k \in m + 1 .. Len(packageInfos) :
                                  packageInfos[k].pJson.name[1] # name
              IN deps[name] = API_URL_BASE \o <<"/">> \o ClientLogin \o <<"/">>
                                \o packageInfos[last].pJson.name[1]
                                \o <<"@">> \o publishingVersion[1]

\* C19 witness: two directories hold packages of one name and the run has
\* reported.
C19_Witness ==
    /\ pc = "done" /\ ReachedReport
    /\ Len(packageInfos) = 2
    /\ packageInfos[1].path # packageInfos[2].path
    /\ packageInfos[1].pJson.name = packageInfos[2].pJson.name

\* The dependency classes of the original manifest that writeDeps changed.
TouchedClasses ==
    LET json == disk0[RewriteDir].json
        touched(field) ==
            field # None /\ \E n \in DOMAIN field[1] : n \in DOMAIN deps
    IN { c \in { "dependencies", "devDependencies", "optionalDependencies" } :
           touched(json[c]) }

\* C20: writeDeps gives, in each of dependencies, devDependencies and
\* optionalDependencies, the mapped URL to exactly the entries whose name is
\* a key of the dependency map; the other entries, peerDependencies and the
\* other fields of the manifest are as before, and no entry is added.
C20_RewriteFrame ==
    pc = "rewritten" =>
        LET old == disk0[RewriteDir].json
            new == disk[RewriteDir].json
        IN /\ \A c \in { "dependencies", "devDependencies", "optionalDependencies" } :
                IF old[c] = None THEN new[c] = None
                ELSE /\ new[c] # None
                     /\ DOMAIN new[c][1] = DOMAIN old[c][1]
                     /\ \A n \in DOMAIN old[c][1] :
                           new[c][1][n] = IF n \in DOMAIN deps THEN deps[n]
                                          ELSE old[c][1][n]
           /\ new.peerDependencies = old.peerDependencies
           /\ new.name = old.name /\ new.version = old.version
           /\ new.private = old.private

\* C4: after writeDeps and then the restore function it returned, the
\* package.json holds exactly the text it had before, whatever the dependency
\* map and however many dependency classes were rewritten.
C4_RestoreGivesOriginal ==
    pc = "restored" => disk[RewriteDir] = disk0[RewriteDir]

\* C4 witness: a manifest in another layout than JSON.stringify's, rewritten
\* in all three classes, has been restored.
C4_Witness ==
    /\ pc = "restored"
    /\ disk0[RewriteDir].layout = "pretty"
    /\ Cardinality(TouchedClasses) = 3
    /\ Stringify(packageInfos[1].pJson) # disk0[RewriteDir]
    /\ packageInfos[1].pJson # disk0[RewriteDir].json

(***************************************************************************)
(* Properties of the upload task.                                          *)
(***************************************************************************)
\* C12: the outcome of an upload is determined by the answer: a body that is
\* not JSON with a string message or error gives error; a 409 whose sha256 is
\* the packed digest gives already-exists; a 409 with another sha256 gives an
\* error that reports the stored and the local digest; any other status
\* outside 200..299 gives error; a status in 200..299 gives published.  A 409
\* that reports another digest is never published or already-exists.
C12_OutcomeOfResponse ==
    (pc \in { "report", "done" } /\ Len(uploadResults) = 1 /\ uploadRes # None)
        => LET res == uploadRes[1]
               localSha == packedPackages[1].packResult.sha256
               out == uploadResults[1]
               ok == res.status >= 200 /\ res.status <= 299
               differs == res.status = 409 /\ res.sha256 # None
                            /\ res.sha256[1] # localSha
           IN IF res.parsed = "unparseable" THEN out.status = "error"
              ELSE IF res.status = 409 /\ res.sha256 = Some(localSha)
                 THEN out.status = "exists"
              ELSE IF differs
                 THEN /\ out.status = "error"
                      /\ out.errorMessage.kind = "conflict"
                      /\ out.errorMessage.expected = res.sha256
                      /\ out.errorMessage.actual = Some(localSha)
              ELSE IF ~ok THEN out.status = "error"
              ELSE out.status = "success"

\* C12 witness: a 409 that reported another digest was classified.
C12_Witness ==
    /\ pc = "report" /\ Len(uploadResults) = 1 /\ uploadRes # None
    /\ uploadRes[1].status = 409 /\ uploadRes[1].parsed = "error"
    /\ uploadRes[1].sha256 # None
    /\ uploadRes[1].sha256[1] # packedPackages[1].packResult.sha256
    /\ uploadResults[1].errorMessage.kind = "conflict"

(***************************************************************************)
(* Properties of publishing the same package and version again.            *)
(***************************************************************************)
\* The current run got an answer for its one package and has reported.
RunAnswered ==
    /\ pc = "done" /\ ReachedReport
    /\ Len(uploadResults) = 1 /\ uploadRes # None

\* The earlier runs whose package was answered published.
PublishedRuns ==
    { r \in 1 .. Len(runLog) :
        Len(runLog[r].results) = 1 /\ runLog[r].results[1].status = "success" }

\* The key the worker gives package b of the stored login under the publish
\* version of the run.
RerunKey == storageKey(ClientLogin, None, <<"b">>, publishingVersion[1])

\* C15: the first run, when the bucket does not fail, stores the archive and
\* reports published; a later run that packed the same archive as a run that
\* was answered published reports already-exists without an error message
\* and closes with the already-exist message.
C15_SameContent ==
    /\ (RunAnswered /\ runLog = << >> /\ uploadRes[1].status # 500)
          => /\ uploadResults[1].status = "success"
             /\ outro = "Successfully published"
             /\ RerunKey \in DOMAIN store
             /\ store[RerunKey].body = packedPackages[1].packResult.file
    /\ \A r \in PublishedRuns :
          (RunAnswered /\ runLog[r].archives = RunReport.archives)
             => /\ uploadResults[1].status = "exists"
                /\ uploadResults[1].errorMessage = NoMessage
                /\ outro = "All packages already exist with the same content"

\* Once a run was answered published, no step of a later run changes the
\* bucket.
C15_StoreUntouched == PublishedRuns # {} => store' = store

C15_RepublishSame == []C15_SameContent /\ [][C15_StoreUntouched]_vars

\* C15 witness: the second run packed what the first one published and has
\* reported already-exists.
C15_Witness ==
    /\ RunAnswered /\ Len(runLog) = 1 /\ PublishedRuns = { 1 }
    /\ runLog[1].archives = RunReport.archives
    /\ uploadResults[1].status = "exists"

\* C16: a later run that packed another archive than the run that was
\* answered published reports an error that shows the stored digest and the
\* local digest, closes with the failure message, and the bucket still holds
\* the bytes of the published run.
C16_OtherContent ==
    \A r \in PublishedRuns :
        (RunAnswered /\ runLog[r].archives # RunReport.archives)
           => /\ uploadResults[1].status = "error"
              /\ uploadResults[1].errorMessage =
                    [ kind |-> "conflict",
                      expected |-> Some(Sha256Hex(runLog[r].archives[1])),
                      actual |-> Some(Sha256Hex(packedPackages[1].packResult.file)) ]
              /\ outro = "No packages were published"
              /\ store[RerunKey].body = runLog[r].archives[1]

C16_StoredBytesKept ==
    \A k \in DOMAIN store : k \in DOMAIN store' /\ store'[k].body = store[k].body

C16_RepublishOther == []C16_OtherContent /\ [][C16_StoredBytesKept]_vars

\* C16 witness: the second run packed a changed package and has reported the
\* conflict.
C16_Witness ==
    /\ RunAnswered /\ Len(runLog) = 1 /\ PublishedRuns = { 1 }
    /\ runLog[1].archives # RunReport.archives
    /\ uploadResults[1].errorMessage.kind = "conflict"

\* The credential file read and written by successive commands.
InitCred == CredInit /\ StoreIdle /\ KeyIdle /\ PubIdle

SpecCred == InitCred /\ [][CredNext]_vars

(***************************************************************************)
(* Properties of getCredentials.                                           *)
(***************************************************************************)
\* The file exists and its content does not parse as { clientId, scopes, token }.
Corrupted(file) == file.kind # "missing" /\ ~GithubOAuthAppAuthentication(file)

\* C21: getCredentials returns null without raising an error whenever the file
\* is missing or its content does not parse as { clientId, scopes, token }; when
\* the file exists and does not parse, unlink is called on it, so the file is
\* gone unless the unlink itself failed.
C21_CorruptedFileDeleted ==
    [][ (credOut = None /\ credOut' # None) =>
          /\ (credFile.kind = "missing" \/ Corrupted(credFile)) =>
                (credOut'[1].output = None /\ ~credOut'[1].threw)
          /\ Corrupted(credFile) =>
                /\ credOut'[1].unlink # "not-called"
                /\ credOut'[1].unlink = "done" => credFile'.kind = "missing" ]_vars

(***************************************************************************)
(* Properties of packing.                                                  *)
(***************************************************************************)
\* The text is a rewritten manifest: written by JSON.stringify, and every
\* entry of dependencies, devDependencies and optionalDependencies whose
\* name is a package of the run holds that package's URL.
Rewritten(text) ==
    /\ text.layout = "indent2"
    /\ \A c \in { "dependencies", "devDependencies", "optionalDependencies" } :
          text.json[c] # None =>
             \A n \in DOMAIN text.json[c][1] \cap DOMAIN deps :
                text.json[c][1][n] = deps[n]

\* C22: while packs are pending the manifest of every surviving package holds
\* its rewritten content, a manifest changes only in PASS 2 or after the last
\* pack has run, and every archive was packed from a rewritten manifest, so
\* the archive of a package that depends on a co-published package names that
\* package's URL and not its local version string.
C22_PackedFromRewritten ==
    /\ [](/\ pc = "pass3" =>
               \A n \in 1 .. Len(packageInfos) :
                  /\ Rewritten(disk[packageInfos[n].path])
                  /\ disk[packageInfos[n].path] = Stringify(packageInfos[n].pJson)
          /\ \A m \in 1 .. Len(packedPackages) :
               /\ packedPackages[m].packResult.file[1] = "tgz"
               /\ Rewritten(packedPackages[m].packResult.file[2])
               /\ packedPackages[m].packResult.file[2].json.name
                    = packedPackages[m].pJson.name)
    /\ [][ disk' # disk =>
             \/ pc = "pass2"
             \/ pc = "pass4" /\ Len(packLog) = Len(packageInfos) ]_vars

\* C22 witness: a was packed while b, which it named by its local version
\* string, is a package of the same run; the archive of a names b's URL.
C22_Witness ==
    /\ <<"b">> \in DOMAIN deps
    /\ \E m \in 1 .. Len(packedPackages) :
         LET p == packedPackages[m].path
             file == packedPackages[m].packResult.file
         IN /\ packedPackages[m].pJson.name = Some(<<"a">>)
            /\ disk0[p].json.dependencies[1][<<"b">>] = Workspace
            /\ file[2].json.dependencies[1][<<"b">>] = deps[<<"b">>]
            /\ file[2].json.dependencies[1][<<"b">>] # Workspace
            /\ \E n \in 1 .. Len(packageInfos) : packageInfos[n].path # p

\* The last pack invocation met this.
LastPack(outcome) == packLog # << >> /\ packLog[Len(packLog)] = outcome

\* C23: when the packing tool exits with status zero and the expected archive
\* does not exist, the error that ends pack is the one with the message "Pack
\* command returned success but no output file was found, this is likely a
\* bug"; a nonzero exit ends pack with another error.
C23_NoFileIsDedicatedError ==
    /\ LastPack("no-file") => uncaught = NoOutputFile
    /\ LastPack("nonzero-exit") => uncaught = FailedToPack

\* C24: after a pack that succeeded without being asked to keep its file the
\* archive file is not on disk, and the result holds the archive bytes, their
\* size and the SHA-256 digest of exactly those bytes; the upload sends those
\* bytes with that digest.
C24_ArchiveReadThenRemoved ==
    /\ \A m \in 1 .. Len(packedPackages) :
         LET r == packedPackages[m].packResult
         IN /\ r.filename \notin archives
            /\ r.file = << "tgz", Stringify(packedPackages[m].pJson) >>
            /\ r.size = FileSize(r.file)
            /\ r.sha256 = ToHex(Sha256Raw(r.file))
    /\ pc = "awaiting" =>
         /\ reqs[1].tarball = packedPackages[i].packResult.file
         /\ reqs[1].sha256 = packedPackages[i].packResult.sha256
         /\ FromHex(reqs[1].sha256) = Sha256Raw(reqs[1].tarball)

\* C24 witness: the pack of the package succeeded, its archive is gone from
\* the directory, and its bytes are on their way to the worker.
C24_Witness ==
    /\ pc = "awaiting" /\ Len(packedPackages) = 1
    /\ LastPack("ok")
    /\ packedPackages[1].packResult.filename \notin archives
    /\ reqs[1].kind = "POST"
    /\ reqs[1].tarball = packedPackages[1].packResult.file

(***************************************************************************)
(* Properties of the request path.                                         *)
(***************************************************************************)
\* The path fails validation: its username or its owner, name or version is
\* missing, empty, too long or outside its character set.
FailsValidation(raw) == ~ValidParams(raw.username, ParsePackage(raw.package))

\* C25: a GET or POST whose username or package segment fails validation is
\* answered 400 on arrival, before any read or write of the bucket, and every
\* key of the bucket is the storage key of a coordinate that passes validation.
C25_InvalidPathIs400 ==
    /\ \A s \in Slots :
         (reqs[s].kind # "idle" /\ FailsValidation(reqs[s].raw)) =>
            /\ reqs[s].pc = "done" /\ reqs[s].status = 400
            /\ reqs[s].sha = None /\ reqs[s].body = None
    /\ \A k \in DOMAIN store :
         \E username \in RawUsernames, org \in Orgs,
            packageName \in PackageNames, version \in Versions :
            /\ ValidUsername(username)
            /\ ValidPackageInfo(org, packageName, version)
            /\ k = storageKey(username, org, packageName, version)

\* C27: two different request paths that both pass validation resolve to
\* different storage keys.
C27_DistinctPathsDistinctKeys ==
    (/\ keyOut # None
     /\ keyArgs[1] # keyArgs[2]
     /\ keyOut[1] # None /\ keyOut[2] # None)
       => keyOut[1] # keyOut[2]

(***************************************************************************)
(* Properties of the mutate and restore passes.                            *)
(***************************************************************************)
\* PASS 4 has run all restore functions.
RestorePassDone == pc = "pass5" \/ ReachedReport

\* C26: the text every restore function of the run writes is the text its
\* package.json had when the run started, whatever the list of directories,
\* and when the restore pass is over every such package.json holds that text.
C26_OriginalIsPreRunContent ==
    /\ \A n \in 1 .. Len(restoreMap) :
          restoreMap[n].value = disk0[restoreMap[n].key]
    /\ RestorePassDone => \A d \in written : disk[d] = disk0[d]

(***************************************************************************)
(* Properties of the closing message.                                      *)
(***************************************************************************)
\* C28: the run closes with "All packages already exist with the same
\* content" only when every package of the run ended with the outcome
\* already-exists, and never when one of them ended with an error.
C28_AllExistMeansAll ==
    (/\ outro = "All packages already exist with the same content"
     /\ \A m, n \in 1 .. Len(paths) : m # n => paths[m] # paths[n]) =>
        /\ uploadResults # << >>
        /\ \A n \in 1 .. Len(uploadResults) : uploadResults[n].status = "exists"

(***************************************************************************)
(* Properties of the stored checksum.                                      *)
(***************************************************************************)
\* C29: in a bucket written by POSTs only, every object has a recorded SHA-256
\* checksum and it is the digest of the stored bytes; so a POST that finds an
\* object at its key is answered 409 and never goes on to the put.
C29_ChecksumRecorded ==
    /\ [](\A k \in DOMAIN store :
             /\ store[k].sha256 # None
             /\ store[k].sha256[1] = Sha256Raw(store[k].body))
    /\ [][ \A s \in Slots :
             (/\ reqs[s].kind = "POST" /\ reqs[s].pc = "head"
              /\ reqs'[s] # reqs[s]
              /\ KeyOf(reqs[s]) \in DOMAIN store)
               => /\ reqs'[s].pc = "done" /\ reqs'[s].status = 409
                  /\ store' = store ]_vars

\* C29 witness: a POST found an object at its key and was answered 409 with
\* the digest of the stored bytes.
C29_Witness ==
    \E s \in Slots :
        /\ PostDone(s) /\ reqs[s].status = 409
        /\ KeyOf(reqs[s]) \in DOMAIN store
        /\ reqs[s].sha = Some(ToHex(Sha256Raw(store[KeyOf(reqs[s])].body)))

====
